---- MODULE Spec2Model ----
(***************************************************************************)
(* Model of nrks.py: the batch pipeline that takes every *.csv file of the *)
(* working directory, strips the '_combined' marker from its name, reads   *)
(* it, files it under generated_files/<song_name>/ and exports the whole   *)
(* table and one csv/xlsx pair per difficulty.                             *)
(*                                                                         *)
(* Strings that the code cuts or concatenates (file names, cell values)    *)
(* are sequences of one-character strings; column names are plain strings. *)
(* A directory is a function from the names of its files to their content. *)
(***************************************************************************)
EXTENDS Integers, Sequences, FiniteSets, TLC

VARIABLES
    platform,     \* "posix" or "windows": decides what os.rename does on an existing target
    current_dir,  \* the *.csv / other files directly in os.getcwd(): name -> content
    output_dir,   \* generated_files: [exists, folders: song folder -> (name -> content)]
    files,        \* the part of the listing of line 43 the for loop has not reached yet
    pc,           \* position of main()
    file_name,    \* loop variable of line 46
    file_path,    \* result of remove_combined_suffix (line 50)
    df,           \* the table read at line 53
    song_name,    \* line 56
    difficulty,   \* index in difficulties of the iteration of line 22
    run,          \* number of the current execution of the script
    prev          \* how the previous execution ended: "none", "ok", "failed"

vars == <<platform, current_dir, output_dir, files, pc, file_name, file_path,
          df, song_name, difficulty, run, prev>>

-----------------------------------------------------------------------------
(* Bounds *)

MaxFiles == 2
MaxRows == 3
MaxRuns == 2

-----------------------------------------------------------------------------
(* Strings *)

Marker == <<"_", "c", "o", "m", "b", "i", "n", "e", "d">>
CsvExt == <<".", "c", "s", "v">>
XlsxExt == <<".", "x", "l", "s", "x">>
Underscore == <<"_">>

TierEZ == <<"E", "Z">>
TierHD == <<"H", "D">>
TierIN == <<"I", "N">>
TierAT == <<"A", "T">>
difficulties == <<TierEZ, TierHD, TierIN, TierAT>>

\* pandas reads an empty cell as NaN, which is not a str
NaN == <<>>

Range(s) == {s[i] : i \in DOMAIN s}

\* m in s
Contains(s, m) ==
    \E i \in 1..(Len(s) - Len(m) + 1) : SubSeq(s, i, i + Len(m) - 1) = m

\* s.endswith(suf)
EndsWith(s, suf) ==
    /\ Len(s) >= Len(suf)
    /\ SubSeq(s, Len(s) - Len(suf) + 1, Len(s)) = suf

\* s.replace(m, ''): every non-overlapping occurrence, scanning from the left
RECURSIVE Replace(_, _)
Replace(s, m) ==
    IF Len(s) < Len(m) THEN s
    ELSE IF SubSeq(s, 1, Len(m)) = m
         THEN Replace(SubSeq(s, Len(m) + 1, Len(s)), m)
         ELSE <<Head(s)>> \o Replace(Tail(s), m)

-----------------------------------------------------------------------------
(* Directories *)

EmptyDir == [n \in {} |-> 0]

Put(dir, name, content) ==
    [n \in (DOMAIN dir) \cup {name} |-> IF n = name THEN content ELSE dir[n]]

Remove(dir, name) == [n \in (DOMAIN dir) \ {name} |-> dir[n]]

\* faulty variant: the loop body wrapped in try/except: the error is swallowed and the loop goes on
Caught == "loop"

\* what an uncaught exception does to main(): nothing catches it
Uncaught == "failed"

\* os.rename(src, dst)
os_rename(plat, dir, src, dst) ==
    IF src \notin DOMAIN dir
    THEN [ok |-> FALSE, dir |-> dir]                    \* FileNotFoundError
    ELSE IF dst \in DOMAIN dir /\ plat = "windows"
         THEN [ok |-> FALSE, dir |-> dir]               \* FileExistsError
         ELSE [ok |-> TRUE, dir |-> Put(Remove(dir, src), dst, dir[src])]

remove_combined_suffix(plat, dir, path) ==
    IF Contains(path, Marker)
    THEN LET new_name == Replace(path, Marker)
             r == os_rename(plat, dir, path, new_name)
         IN  [ok |-> r.ok, dir |-> r.dir, path |-> new_name]
    ELSE [ok |-> TRUE, dir |-> dir, path |-> path]

\* [f for f in os.listdir(current_dir) if f.endswith('.csv')]
ListCsv(dir) == {n \in DOMAIN dir : EndsWith(n, CsvExt)}

RECURSIVE Perms(_)
Perms(S) ==
    IF S = {} THEN {<<>>}
    ELSE UNION {{<<x>> \o p : p \in Perms(S \ {x})} : x \in S}

-----------------------------------------------------------------------------
(* Tables *)

NoDf == [columns |-> <<>>, rows |-> <<>>]

\* pd.read_csv(file_path)
read_csv(dir, path) ==
    IF path \notin DOMAIN dir
    THEN [ok |-> FALSE, df |-> NoDf]                    \* FileNotFoundError
    ELSE IF dir[path].fmt # "csv"
         THEN [ok |-> FALSE, df |-> NoDf]               \* ParserError, EmptyDataError
         ELSE [ok |-> TRUE,
               df |-> [columns |-> dir[path].columns, rows |-> dir[path].rows]]

\* position of a column, 0 when the table has no such column
ColumnIndex(t, c) ==
    IF c \in Range(t.columns)
    THEN CHOOSE i \in DOMAIN t.columns : t.columns[i] = c
    ELSE 0

\* faulty variant: an empty table gets a placeholder name instead of raising IndexError
first_song_name_default(t) ==
    IF ColumnIndex(t, "song_name") = 0
    THEN [ok |-> FALSE, song |-> NaN]
    ELSE IF t.rows = <<>>
         THEN [ok |-> TRUE, song |-> <<"U">>]
         ELSE [ok |-> TRUE, song |-> t.rows[1][ColumnIndex(t, "song_name")]]

\* df['song_name'].iloc[0]
first_song_name(t) ==
    IF ColumnIndex(t, "song_name") = 0
    THEN [ok |-> FALSE, song |-> NaN]                   \* KeyError
    ELSE IF t.rows = <<>>
         THEN [ok |-> FALSE, song |-> NaN]              \* IndexError
         ELSE [ok |-> TRUE, song |-> t.rows[1][ColumnIndex(t, "song_name")]]

DropAt(s, i) == SubSeq(s, 1, i - 1) \o SubSeq(s, i + 1, Len(s))

\* t.drop(columns=[c], errors='ignore')
drop(t, c) ==
    LET i == ColumnIndex(t, c)
    IN  IF i = 0 THEN t
        ELSE [columns |-> DropAt(t.columns, i),
              rows |-> [r \in DOMAIN t.rows |-> DropAt(t.rows[r], i)]]

\* faulty variant: != written for ==
MaskNotEqual(t, d) ==
    {i \in DOMAIN t.rows : t.rows[i][ColumnIndex(t, "difficulty")] # d}

\* the boolean mask df['difficulty'] == d, as the set of row positions it selects
Mask(t, d) ==
    {i \in DOMAIN t.rows : t.rows[i][ColumnIndex(t, "difficulty")] = d}

RECURSIVE Take(_, _, _)
Take(rows, keep, i) ==
    IF i > Len(rows) THEN <<>>
    ELSE (IF i \in keep THEN <<rows[i]>> ELSE <<>>) \o Take(rows, keep, i + 1)

\* df[df['difficulty'] == d]
Select(t, d) == [columns |-> t.columns, rows |-> Take(t.rows, Mask(t, d), 1)]

\* faulty variant: index=False forgotten: the row labels are written as a first, unnamed column
to_csv_with_index(t) ==
    [fmt |-> "csv", columns |-> <<"">> \o t.columns,
     rows |-> [r \in DOMAIN t.rows |-> <<<<ToString(r)>>>> \o t.rows[r]]]

\* t.to_csv(path, index=False) and t.to_excel(path, index=False): the content of the file
to_csv(t) == [fmt |-> "csv", columns |-> t.columns, rows |-> t.rows]
to_excel(t) == [fmt |-> "xlsx", columns |-> t.columns, rows |-> t.rows]

\* faulty variant: the test of line 25 left out
empty_never(t) == FALSE

\* DataFrame.empty
empty(t) == t.rows = <<>> \/ t.columns = <<>>

-----------------------------------------------------------------------------
(* The output tree *)

NoOutput == [exists |-> FALSE, folders |-> EmptyDir]

\* a file written (or overwritten) in the folder of one song
WriteFile(out, song, name, content) ==
    [exists |-> out.exists,
     folders |-> Put(out.folders, song, Put(out.folders[song], name, content))]

\* os.makedirs(song_folder, exist_ok=True); os.path.join rejects a song_name that is no str
create_song_folder(out, song) ==
    IF song = NaN
    THEN [ok |-> FALSE, out |-> out]                    \* TypeError
    ELSE [ok |-> TRUE,
          out |-> [exists |-> TRUE,
                   folders |-> IF song \in DOMAIN out.folders
                               THEN out.folders
                               ELSE Put(out.folders, song, EmptyDir)]]

\* faulty variant: shutil.copy for shutil.move: the source stays in the working directory
shutil_copy(dir, out, path, song, name) ==
    [dir |-> dir, out |-> WriteFile(out, song, name, dir[path])]

\* shutil.move(file_path, os.path.join(song_folder, file_name)): replaces an existing file
shutil_move(dir, out, path, song, name) ==
    [dir |-> Remove(dir, path), out |-> WriteFile(out, song, name, dir[path])]

\* df.drop(columns=['song_name'], errors='ignore').to_excel(f"{song_name}.xlsx")
export_song(out, t, song) ==
    WriteFile(out, song, song \o XlsxExt, to_excel(drop(t, "song_name")))

CsvName(song, d) == song \o Underscore \o d \o CsvExt
ExcelName(song, d) == song \o Underscore \o d \o XlsxExt

\* one iteration of the loop of split_by_difficulty, for the difficulty d
split_one(out, t, song, d) ==
    LET difficulty_data == Select(t, d)
        without_name == drop(difficulty_data, "song_name")
    IN  IF ~empty(difficulty_data)
        THEN WriteFile(WriteFile(out, song, CsvName(song, d), to_csv(without_name)),
                       song, ExcelName(song, d), to_excel(without_name))
        ELSE out

HasDifficulty(t) == ColumnIndex(t, "difficulty") # 0

RECURSIVE split_from(_, _, _, _)
split_from(out, t, song, i) ==
    IF i > Len(difficulties) THEN out
    ELSE split_from(split_one(out, t, song, difficulties[i]), t, song, i + 1)

\* split_by_difficulty as a whole: the four iterations in the order of difficulties
split_by_difficulty(out, t, song) ==
    IF HasDifficulty(t)
    THEN [ok |-> TRUE, out |-> split_from(out, t, song, 1)]
    ELSE [ok |-> FALSE, out |-> out]                    \* KeyError at line 24

\* the body of the for loop of main on one file, when no filesystem call fails for a
\* reason outside the script
ProcessFile(plat, dir, out, name) ==
    LET n == remove_combined_suffix(plat, dir, name)
        r == read_csv(n.dir, n.path)
        s == first_song_name(r.df)
        c == create_song_folder(out, s.song)
        m == shutil_move(n.dir, c.out, n.path, s.song, name)
        e == export_song(m.out, r.df, s.song)
        p == split_by_difficulty(e, r.df, s.song)
    IN  IF ~n.ok THEN [ok |-> FALSE, dir |-> dir, out |-> out]
        ELSE IF ~r.ok \/ ~s.ok \/ ~c.ok THEN [ok |-> FALSE, dir |-> n.dir, out |-> out]
        ELSE [ok |-> p.ok, dir |-> m.dir, out |-> p.out]

\* the for loop of main over a listing, from the directories given
RECURSIVE RunFiles(_, _, _, _)
RunFiles(plat, dir, out, listing) ==
    IF listing = <<>> THEN [ok |-> TRUE, dir |-> dir, out |-> out]
    ELSE LET r == ProcessFile(plat, dir, out, Head(listing))
         IN  IF r.ok THEN RunFiles(plat, r.dir, r.out, Tail(listing))
             ELSE r

-----------------------------------------------------------------------------
(* Inputs *)

Schema == <<"song_name", "difficulty", "score">>
SchemaNameLast == <<"difficulty", "score", "song_name">>
SchemaNoName == <<"difficulty", "score">>
SchemaNoDifficulty == <<"song_name", "score">>

TierLegacy == <<"L", "e", "g", "a", "c", "y">>
Tiers == Range(difficulties) \cup {TierLegacy}

SongS == <<"S">>
SongT == <<"T">>

\* the i-th row of a table of one song: its score tells the rows apart
Row(cols, song, d, i) ==
    [c \in DOMAIN cols |->
        IF cols[c] = "song_name" THEN song
        ELSE IF cols[c] = "difficulty" THEN d
        ELSE <<ToString(i)>>]

Table(cols, song, ds) ==
    [fmt |-> "csv", columns |-> cols,
     rows |-> [i \in DOMAIN ds |-> Row(cols, song, ds[i], i)]]

Malformed == [fmt |-> "bad", columns |-> <<>>, rows |-> <<>>]

SampleFiles ==
    { Table(Schema, SongS, <<TierEZ, TierHD>>),
      Table(SchemaNameLast, SongT, <<TierHD, TierLegacy>>),
      Table(Schema, SongS, <<TierAT>>),
      Table(Schema, SongS, <<>>),
      Table(SchemaNoName, SongS, <<TierEZ>>),
      Table(SchemaNoDifficulty, SongT, <<TierEZ>>),
      Table(Schema, NaN, <<TierIN>>),
      Malformed }

\* a.csv, a_combined.csv, a_combined_combined.csv, a_comb_combinedined.csv (which
\* str.replace turns into a_combined.csv) and b.csv
Stem == <<"a">>
InputNames ==
    { Stem \o CsvExt,
      Stem \o Marker \o CsvExt,
      Stem \o Marker \o Marker \o CsvExt,
      Stem \o SubSeq(Marker, 1, 5) \o Marker \o SubSeq(Marker, 6, 9) \o CsvExt,
      <<"b">> \o CsvExt }

NotesName == <<"n", ".", "t", "x", "t">>

\* the working directories the script is started in: at most MaxFiles csv files, and
\* one file that is no csv file
InputDirs ==
    UNION { { Put(d, NotesName, Malformed) : d \in [S -> SampleFiles] } :
            S \in {X \in SUBSET InputNames : Cardinality(X) <= MaxFiles} }

-----------------------------------------------------------------------------
(* main() *)

Init ==
    /\ platform \in {"posix", "windows"}
    /\ current_dir \in InputDirs
    /\ output_dir = NoOutput
    /\ files = <<>>
    /\ pc = "start"
    /\ file_name = <<>>
    /\ file_path = <<>>
    /\ df = NoDf
    /\ song_name = NaN
    /\ difficulty = 1
    /\ run = 1
    /\ prev = "none"

\* lines 38-43: create generated_files, list the csv files in the order the listing gives
Start ==
    /\ pc = "start"
    /\ output_dir' = [exists |-> TRUE, folders |-> output_dir.folders]
    /\ files' \in Perms(ListCsv(current_dir))
    /\ pc' = "loop"
    /\ UNCHANGED <<platform, current_dir, file_name, file_path, df, song_name,
                   difficulty, run, prev>>

\* lines 46-50: the next file of the listing, and remove_combined_suffix on it
Normalize ==
    /\ pc = "loop"
    /\ files # <<>>
    /\ file_name' = Head(files)
    /\ files' = Tail(files)
    /\ LET r == remove_combined_suffix(platform, current_dir, Head(files))
       IN  IF r.ok
           THEN /\ file_path' = r.path
                /\ current_dir' = r.dir
                /\ pc' = "read"
           ELSE /\ pc' = Uncaught
                /\ UNCHANGED <<file_path, current_dir>>
    /\ UNCHANGED <<platform, output_dir, df, song_name, difficulty, run, prev>>

\* line 53
Read ==
    /\ pc = "read"
    /\ LET r == read_csv(current_dir, file_path)
       IN  IF r.ok
           THEN df' = r.df /\ pc' = "song"
           ELSE pc' = Uncaught /\ UNCHANGED df
    /\ UNCHANGED <<platform, current_dir, output_dir, files, file_name, file_path,
                   song_name, difficulty, run, prev>>

\* line 56
SongName ==
    /\ pc = "song"
    /\ LET r == first_song_name(df)
       IN  IF r.ok
           THEN song_name' = r.song /\ pc' = "mkdir"
           ELSE pc' = Uncaught /\ UNCHANGED song_name
    /\ UNCHANGED <<platform, current_dir, output_dir, files, file_name, file_path,
                   df, difficulty, run, prev>>

\* line 59
CreateFolder ==
    /\ pc = "mkdir"
    /\ LET r == create_song_folder(output_dir, song_name)
       IN  IF r.ok
           THEN output_dir' = r.out /\ pc' = "move"
           ELSE pc' = Uncaught /\ UNCHANGED output_dir
    /\ UNCHANGED <<platform, current_dir, files, file_name, file_path, df,
                   song_name, difficulty, run, prev>>

\* line 62
Move ==
    /\ pc = "move"
    /\ LET r == shutil_move(current_dir, output_dir, file_path, song_name, file_name)
       IN  current_dir' = r.dir /\ output_dir' = r.out
    /\ pc' = "export"
    /\ UNCHANGED <<platform, files, file_name, file_path, df, song_name,
                   difficulty, run, prev>>

\* lines 65-67
Export ==
    /\ pc = "export"
    /\ output_dir' = export_song(output_dir, df, song_name)
    /\ pc' = "split"
    /\ UNCHANGED <<platform, current_dir, files, file_name, file_path, df,
                   song_name, difficulty, run, prev>>

\* lines 22-35: one iteration of the loop over difficulties; after the last one
\* split_by_difficulty returns and main goes on to the next file
Split ==
    /\ pc = "split"
    /\ IF ~HasDifficulty(df)
       THEN /\ pc' = Uncaught                           \* KeyError at line 24
            /\ UNCHANGED <<output_dir, difficulty>>
       ELSE /\ output_dir' = split_one(output_dir, df, song_name, difficulties[difficulty])
            /\ IF difficulty = Len(difficulties)
               THEN difficulty' = 1 /\ pc' = "loop"
               ELSE difficulty' = difficulty + 1 /\ pc' = "split"
    /\ UNCHANGED <<platform, current_dir, files, file_name, file_path, df,
                   song_name, run, prev>>

\* a filesystem call of lines 62-67 or 33-34 raises OSError (disk full, no permission)
IOError ==
    /\ \/ pc \in {"move", "export"}
       \/ /\ pc = "split"
          /\ HasDifficulty(df)
          /\ ~empty(Select(df, difficulties[difficulty]))
    /\ pc' = Uncaught
    /\ UNCHANGED <<platform, current_dir, output_dir, files, file_name, file_path,
                   df, song_name, difficulty, run, prev>>

\* lines 72-75: the listing is exhausted; moving generated_files onto itself changes nothing
Pack ==
    /\ pc = "loop"
    /\ files = <<>>
    /\ pc' = "done"
    /\ UNCHANGED <<platform, current_dir, output_dir, files, file_name, file_path,
                   df, song_name, difficulty, run, prev>>

\* the script is started again in the same working directory
Rerun ==
    /\ pc \in {"done", "failed"}
    /\ run < MaxRuns
    /\ run' = run + 1
    /\ prev' = IF pc = "done" THEN "ok" ELSE "failed"
    /\ pc' = "start"
    /\ files' = <<>>
    /\ file_name' = <<>>
    /\ file_path' = <<>>
    /\ df' = NoDf
    /\ song_name' = NaN
    /\ difficulty' = 1
    /\ UNCHANGED <<platform, current_dir, output_dir>>

Next ==
    \/ Start
    \/ Normalize
    \/ Read
    \/ SongName
    \/ CreateFolder
    \/ Move
    \/ Export
    \/ Split
    \/ IOError
    \/ Pack
    \/ Rerun

Spec == Init /\ [][Next]_vars

-----------------------------------------------------------------------------
(* split_by_difficulty on every table of at most MaxRows rows: main() is taken at *)
(* line 70, after the input file was moved and the whole-song export written, in  *)
(* a song folder that is new or holds the exports of an earlier file of the song  *)

RECURSIVE SeqsUpTo(_, _)
SeqsUpTo(S, n) ==
    IF n = 0 THEN {} ELSE [1..n -> S] \cup SeqsUpTo(S, n - 1)

SplitTables ==
    { Table(cols, SongS, ds) :
        cols \in {Schema, SchemaNameLast, SchemaNoDifficulty},
        ds \in SeqsUpTo(Tiers, MaxRows) }

SchemaOld == <<"song_name", "difficulty", "rank">>
OldName == <<"o">> \o CsvExt
OldTable == Table(SchemaOld, SongS, difficulties)
InName == <<"b">> \o CsvExt

\* generated_files after an earlier run on OldName alone
OldOutput ==
    ProcessFile("posix", Put(EmptyDir, OldName, OldTable), NoOutput, OldName).out

SplitInit ==
    /\ platform \in {"posix", "windows"}
    /\ \E t \in SplitTables, old \in BOOLEAN :
          LET dir0 == Put(Put(EmptyDir, NotesName, Malformed), InName, t)
              c == create_song_folder(IF old THEN OldOutput ELSE NoOutput, SongS)
              m == shutil_move(dir0, c.out, InName, SongS, InName)
          IN  /\ current_dir = m.dir
              /\ output_dir = export_song(m.out, read_csv(dir0, InName).df, SongS)
              /\ df = read_csv(dir0, InName).df
    /\ files = <<>>
    /\ pc = "split"
    /\ file_name = InName
    /\ file_path = InName
    /\ song_name = SongS
    /\ difficulty = 1
    /\ run = 1
    /\ prev = "none"

SplitNext ==
    \/ Split
    \/ IOError
    \/ Pack

SplitSpec == SplitInit /\ [][SplitNext]_vars

-----------------------------------------------------------------------------
(* Properties *)

Folder == output_dir.folders[song_name]
TierOf(i) == df.rows[i][ColumnIndex(df, "difficulty")]
SplitReturned == pc \in {"loop", "done"} /\ file_name # <<>>

\* C1 (as claimed): every row of the table is in exactly one of the four partitions.
C1_EveryRowInOnePartition ==
    HasDifficulty(df) =>
        \A i \in DOMAIN df.rows :
            Cardinality({d \in Range(difficulties) : i \in Mask(df, d)}) = 1

\* C1 (amended): the four partitions are pairwise disjoint, each holds as many rows as
\* its mask selects, and together they hold exactly the rows whose difficulty is one of
\* EZ, HD, IN, AT; a row with any other difficulty is in no partition.
C1_PartitionOfKnownTiers ==
    HasDifficulty(df) =>
        /\ \A d1, d2 \in Range(difficulties) :
              d1 # d2 => Mask(df, d1) \cap Mask(df, d2) = {}
        /\ \A d \in Range(difficulties) :
              Len(Select(df, d).rows) = Cardinality(Mask(df, d))
        /\ UNION {Mask(df, d) : d \in Range(difficulties)}
              = {i \in DOMAIN df.rows : TierOf(i) \in Range(difficulties)}

C1_Witness ==
    /\ SplitReturned
    /\ \E i \in DOMAIN df.rows : TierOf(i) = TierLegacy
    /\ Mask(df, TierEZ) # {}
    /\ Mask(df, TierHD) # {}

NotSongName(c) == c # "song_name"

\* the positions of a set of rows, in table order
InOrder(S) ==
    CHOOSE q \in [1..Cardinality(S) -> S] :
        \A a, b \in 1..Cardinality(S) : a < b => q[a] < q[b]

\* the file called name holds, in the format fmt, the rows of difficulty d in table
\* order, under the columns of the table other than song_name in their order
HoldsTier(name, fmt, d) ==
    /\ name \in DOMAIN Folder
    /\ LET f == Folder[name]
           cols == SelectSeq(df.columns, NotSongName)
           idx == InOrder(Mask(df, d))
       IN  /\ f.fmt = fmt
           /\ f.columns = cols
           /\ Len(f.rows) = Len(idx)
           /\ \A k \in DOMAIN f.rows :
                 /\ Len(f.rows[k]) = Len(cols)
                 /\ \A j \in DOMAIN cols :
                       f.rows[k][j] = df.rows[idx[k]][ColumnIndex(df, cols[j])]

\* C2: once split_by_difficulty has returned, for every difficulty with at least one row
\* the csv file and the xlsx file of that difficulty hold exactly the rows of that
\* difficulty, in table order, without the song_name column and with every other column
\* in its original order.
C2_TierFilesHoldPartition ==
    SplitReturned =>
        \A d \in Range(difficulties) :
            Mask(df, d) # {} =>
                /\ HoldsTier(CsvName(song_name, d), "csv", d)
                /\ HoldsTier(ExcelName(song_name, d), "xlsx", d)

C2_Witness ==
    /\ SplitReturned
    /\ df.columns = SchemaNameLast
    /\ Cardinality(Mask(df, TierHD)) >= 2
    /\ Mask(df, TierAT) # {}
    /\ Len(Folder[CsvName(song_name, TierHD)].rows) = Cardinality(Mask(df, TierHD))

\* C3: an iteration of split_by_difficulty on a difficulty without rows changes nothing in
\* the output tree and raises no error; an iteration on a difficulty with rows that
\* completes leaves both files of the pair in the song folder and every other file as it
\* was; and when the function has returned the pair of every difficulty with rows exists.
C3_PairWrittenIffTierHasRows ==
    /\ [](SplitReturned =>
            \A d \in Range(difficulties) :
                Mask(df, d) # {} =>
                    {CsvName(song_name, d), ExcelName(song_name, d)} \subseteq DOMAIN Folder)
    /\ [][(pc = "split" /\ HasDifficulty(df)) =>
            LET d == difficulties[difficulty]
                pair == {CsvName(song_name, d), ExcelName(song_name, d)}
            IN  IF Mask(df, d) = {}
                THEN output_dir' = output_dir /\ pc' # "failed"
                ELSE pc' # "failed" =>
                        /\ DOMAIN output_dir'.folders = DOMAIN output_dir.folders
                        /\ DOMAIN output_dir'.folders[song_name] = (DOMAIN Folder) \cup pair
                        /\ \A n \in (DOMAIN Folder) \ pair :
                              output_dir'.folders[song_name][n] = Folder[n]
                        /\ \A s \in (DOMAIN output_dir.folders) \ {song_name} :
                              output_dir'.folders[s] = output_dir.folders[s]
          ]_vars

C3_Witness ==
    /\ SplitReturned
    /\ Mask(df, TierAT) = {}
    /\ ExcelName(song_name, TierAT) \in DOMAIN Folder
    /\ Folder[ExcelName(song_name, TierAT)].columns = <<"difficulty", "rank">>
    /\ Mask(df, TierEZ) = {}
    /\ Mask(df, TierIN) # {}
    /\ Folder[ExcelName(song_name, TierIN)].columns = <<"difficulty", "score">>

\* C4 (as claimed): after a file whose name contains the marker has been processed, its
\* song folder holds it under the normalized name and it is no longer in the working
\* directory.
C4_StoredUnderNormalizedName ==
    (pc = "loop" /\ file_name # <<>> /\ Contains(file_name, Marker)) =>
        /\ file_path \in DOMAIN Folder
        /\ Folder[file_path] = to_csv(df)
        /\ file_path \notin DOMAIN current_dir
        /\ file_name \notin DOMAIN current_dir

\* the names that s becomes when exactly one occurrence of m is cut out of it
RemoveOne(s, m) ==
    { SubSeq(s, 1, i - 1) \o SubSeq(s, i + Len(m), Len(s)) :
        i \in {j \in 1..(Len(s) - Len(m) + 1) : SubSeq(s, j, j + Len(m) - 1) = m} }

\* C5 (as claimed): remove_combined_suffix returns a name with the marker the name with
\* exactly one occurrence removed, the file being renamed to it, and any other name
\* unchanged.
C5_RemovesExactlyOneOccurrence ==
    pc = "read" =>
        IF Contains(file_name, Marker)
        THEN /\ file_path \in RemoveOne(file_name, Marker)
             /\ file_path \in DOMAIN current_dir
             /\ file_name \notin DOMAIN current_dir
        ELSE file_path = file_name

HeaderOnly(t) == t.columns # <<>> /\ t.rows = <<>>

\* C6: a table with a header and no rows stops the run at the read of the song name: the
\* step fails and changes neither directory, so no song folder is created, the input file
\* stays in the working directory, and no step that creates a folder, moves the file or
\* exports is ever taken with that table.
C6_EmptyTableIsFatal ==
    /\ [](HeaderOnly(df) =>
            /\ pc \in {"song", "failed"}
            /\ file_path \in DOMAIN current_dir
            /\ to_csv(df) = current_dir[file_path])
    /\ [][(pc = "song" /\ HeaderOnly(df)) =>
            /\ pc' = "failed"
            /\ UNCHANGED <<current_dir, output_dir>>]_vars

C6_Witness ==
    /\ pc = "failed"
    /\ HeaderOnly(df)
    /\ ListCsv(current_dir) = {file_path}
    /\ output_dir.folders = EmptyDir

\* a step of main() that the state does not let complete
StepFails ==
    \/ pc = "loop" /\ files # <<>>
          /\ ~remove_combined_suffix(platform, current_dir, Head(files)).ok
    \/ pc = "read" /\ ~read_csv(current_dir, file_path).ok
    \/ pc = "song" /\ ~first_song_name(df).ok
    \/ pc = "mkdir" /\ ~create_song_folder(output_dir, song_name).ok
    \/ pc = "split" /\ ~HasDifficulty(df)

\* C7: a step that fails ends the run; the failing step and everything after it in that
\* run leave both directories as they are (nothing is rolled back, no later file of the
\* listing is touched); the only thing that follows is a new start of the script.
C7_FailureEndsTheRun ==
    [][ /\ StepFails => pc' = "failed"
        /\ pc = "move" => pc' \in {"export", "failed"}
        /\ pc = "export" => pc' \in {"split", "failed"}
        /\ pc = "split" => pc' \in {"split", "loop", "failed"}
        /\ pc' = "failed" => UNCHANGED <<current_dir, output_dir>>
        /\ pc = "failed" => UNCHANGED <<current_dir, output_dir>> /\ run' = run + 1
      ]_vars

\* the run failed in split_by_difficulty on a table without difficulty column: the moved
\* input and the whole-song export of the failing file stay, the next file of the
\* listing is still in the working directory
C7_Witness ==
    /\ pc = "failed"
    /\ run = 1
    /\ ~HasDifficulty(df)
    /\ files # <<>>
    /\ Head(files) \in DOMAIN current_dir
    /\ song_name \in DOMAIN output_dir.folders
    /\ {file_name, song_name \o XlsxExt} \subseteq DOMAIN Folder

\* C8: a run that follows a run that completed finds no csv file in the working directory
\* and changes neither the working directory nor the output tree.
C8_SecondRunIsNoOp ==
    /\ []((run >= 2 /\ prev = "ok") =>
            /\ ListCsv(current_dir) = {}
            /\ files = <<>>
            /\ pc \in {"start", "loop", "done"})
    /\ [][(run >= 2 /\ prev = "ok") => UNCHANGED <<current_dir, output_dir>>]_vars

C8_Witness ==
    /\ run = 2
    /\ prev = "ok"
    /\ pc = "done"
    /\ Cardinality(DOMAIN output_dir.folders) = 2

\* C9 (as claimed): when the normalized name of the next file is the name of a file of the
\* working directory, the rename fails, the run stops and the working directory is
\* unchanged.
C9_RenameOntoExistingFails ==
    [][(/\ pc = "loop"
        /\ files # <<>>
        /\ Contains(Head(files), Marker)
        /\ Replace(Head(files), Marker) \in DOMAIN current_dir) =>
            /\ pc' = "failed"
            /\ current_dir' = current_dir]_vars

\* the csv files of a directory hold tables of the expected schema (a song_name and a
\* difficulty column, at least one row, a song name that is a string), no two of the
\* same song
DistinctSongs(dir) ==
    /\ \A n \in ListCsv(dir) :
          /\ read_csv(dir, n).ok
          /\ first_song_name(read_csv(dir, n).df).ok
          /\ first_song_name(read_csv(dir, n).df).song # NaN
          /\ HasDifficulty(read_csv(dir, n).df)
    /\ \A n1, n2 \in ListCsv(dir) :
          n1 # n2 => first_song_name(read_csv(dir, n1).df).song
                        # first_song_name(read_csv(dir, n2).df).song

JustListed ==
    /\ pc = "loop"
    /\ Len(files) = Cardinality(ListCsv(current_dir))
    /\ Range(files) = ListCsv(current_dir)

\* C10 (as claimed): when the tables are of the expected schema and have pairwise
\* distinct song names, every order of the listing gives the same result (success or
\* failure) and the same final directories as the order taken.
C10_OrderDoesNotMatter ==
    (JustListed /\ DistinctSongs(current_dir)) =>
        \A o \in Perms(ListCsv(current_dir)) :
            RunFiles(platform, current_dir, output_dir, o)
                = RunFiles(platform, current_dir, output_dir, files)

====
